---- MODULE Spec2Model ----
(***************************************************************************)
(* Model of plugintranslations: PluginTranslator (translator.py) and the   *)
(* collaborators it drives (Translations, SourceFile, Prompt).             *)
(*                                                                         *)
(* A text of the environment is a sequence of tokens: a token is either    *)
(* the blank " ", the comma "," or a maximal run of other characters.      *)
(* Python's None and the empty str '' returned by _get_input are both the  *)
(* empty sequence, which is how _get_input itself identifies them.         *)
(***************************************************************************)
EXTENDS Integers, Sequences, FiniteSets, TLC

(***************************************************************************)
(* Bounds of the exploration                                               *)
(***************************************************************************)
\* longest target-language list tried
MaxTargets == 3
\* number of PluginTranslator instances constructed one after the other in
\* the same working directory
MaxRuns == 2
\* longest period of a Throttle, and latest start of the clock
MaxPeriod == 3
\* number of calls of a function wrapped by a Throttle
MaxCalls == 3
\* the time after which no time is let pass between two calls
MaxClock == 6

\* throttle.py: seconds = 0.1, the default period of a Throttle; the clock
\* of the model counts in this unit
DefaultSeconds == 1

(***************************************************************************)
(* consts.py                                                               *)
(***************************************************************************)
FR_FR == "fr_FR"
EN_US == "en_US"
ES_ES == "es_ES"
DE_DE == "de_DE"

\* the supported languages, listed in the order str comparison gives them
ALL_LANGUAGES == <<DE_DE, EN_US, ES_ES, FR_FR>>

INPUT_SOURCE_LANGUAGE == "INPUT_SOURCE_LANGUAGE"
INPUT_TARGET_LANGUAGES == "INPUT_TARGET_LANGUAGES"
INPUT_DEEPL_API_KEY == "INPUT_DEEPL_API_KEY"
INPUT_INCLUDE_EMPTY_TRANSLATION == "INPUT_INCLUDE_EMPTY_TRANSLATION"
INPUT_USE_CORE_TRANSLATIONS == "INPUT_USE_CORE_TRANSLATIONS"
INPUT_GENERATE_SOURCE_LANGUAGE_TRANSLATIONS == "INPUT_GENERATE_SOURCE_LANGUAGE_TRANSLATIONS"
INPUT_DEBUG == "INPUT_DEBUG"

FILE_EXTS == {".php", ".json", ".js", ".html"}

(***************************************************************************)
(* Generic helpers                                                         *)
(***************************************************************************)
Range(s) == {s[i] : i \in 1..Len(s)}

EmptyMap == [x \in {} |-> ""]

\* d[k] = v of a Python dict
Put(d, k, v) == [x \in (DOMAIN d) \cup {k} |-> IF x = k THEN v ELSE d[x]]

IndexOf(s, x) == CHOOSE i \in 1..Len(s) : s[i] = x

\* str.strip() on a token sequence
RECURSIVE lstrip(_)
lstrip(s) ==
    IF s # <<>> /\ Head(s) = " " THEN lstrip(Tail(s)) ELSE s

RECURSIVE rstrip(_)
rstrip(s) ==
    IF s # <<>> /\ s[Len(s)] = " " THEN rstrip(SubSeq(s, 1, Len(s) - 1)) ELSE s

strip(s) == rstrip(lstrip(s))

\* str.split(','): the pieces between the commas, at least one piece
RECURSIVE split(_)
split(s) ==
    IF \E i \in 1..Len(s) : s[i] = ","
    THEN LET i == CHOOSE k \in 1..Len(s) : s[k] = "," /\ \A j \in 1..(k - 1) : s[j] # ","
         IN  <<SubSeq(s, 1, i - 1)>> \o split(SubSeq(s, i + 1, Len(s)))
    ELSE <<s>>

\* sorted(set(...)) of language codes: ascending in str order, no duplicate
RECURSIVE SortedSet(_)
SortedSet(S) ==
    IF S = {} THEN <<>>
    ELSE LET m == CHOOSE x \in S : \A y \in S : IndexOf(ALL_LANGUAGES, x) <= IndexOf(ALL_LANGUAGES, y)
         IN  <<m>> \o SortedSet(S \ {m})

(***************************************************************************)
(* Inputs (translator.py, _get_input and the three validators).            *)
(* A validator returns [ok, val]; ok = FALSE stands for the ValueError.    *)
(***************************************************************************)
None == <<>>

\* os.environ[name].strip() if name in os.environ else '' ; '' becomes None
get_input(env, name) ==
    IF name \in DOMAIN env THEN strip(env[name]) ELSE None

trueValue == {<<"true">>, <<"True">>, <<"TRUE">>}
falseValue == {<<"false">>, <<"False">>, <<"FALSE">>}

get_boolean_input_accepts_all(env, name) ==
    [ok |-> TRUE, val |-> get_input(env, name) \in trueValue]

get_boolean_input(env, name) ==
    LET val == get_input(env, name)
    IN  IF val \in trueValue THEN [ok |-> TRUE, val |-> TRUE]
        ELSE IF val \in falseValue THEN [ok |-> TRUE, val |-> FALSE]
        ELSE [ok |-> FALSE, val |-> FALSE]

\* a stripped text is one of the allowed values
InList(val, allowed_values) ==
    Len(val) = 1 /\ val[1] \in Range(allowed_values)

get_list_input(env, name, allowed_values) ==
    LET val == get_input(env, name)
        list == [i \in 1..Len(split(val)) |-> strip(split(val)[i])]
    IN  IF val = None THEN [ok |-> FALSE, val |-> <<>>]
        ELSE IF \E i \in 1..Len(list) : ~InList(list[i], allowed_values)
        THEN [ok |-> FALSE, val |-> <<>>]
        ELSE [ok |-> TRUE, val |-> [i \in 1..Len(list) |-> list[i][1]]]

get_input_in_list(env, name, allowed_values) ==
    LET val == get_input(env, name)
    IN  IF val = None \/ ~InList(val, allowed_values)
        THEN [ok |-> FALSE, val |-> ""]
        ELSE [ok |-> TRUE, val |-> val[1]]

\* the use-core flag is read only when the source language is fr_FR
use_core_input(env, source_language) ==
    IF source_language # FR_FR
    THEN [ok |-> TRUE, val |-> FALSE]
    ELSE get_boolean_input(env, INPUT_USE_CORE_TRANSLATIONS)

\* __get_inputs: ok = FALSE when any of the reads raised
get_inputs(env) ==
    LET src == get_input_in_list(env, INPUT_SOURCE_LANGUAGE, ALL_LANGUAGES)
        tgt == get_list_input(env, INPUT_TARGET_LANGUAGES, ALL_LANGUAGES)
        inc == get_boolean_input(env, INPUT_INCLUDE_EMPTY_TRANSLATION)
        core == use_core_input(env, src.val)
        gen == get_boolean_input(env, INPUT_GENERATE_SOURCE_LANGUAGE_TRANSLATIONS)
        dbg == get_boolean_input(env, INPUT_DEBUG)
    IN  [ok |-> src.ok /\ tgt.ok /\ inc.ok /\ core.ok /\ gen.ok /\ dbg.ok,
         source_language |-> src.val,
         target_languages |-> tgt.val,
         deepl_api_key |-> get_input(env, INPUT_DEEPL_API_KEY),
         include_empty_translation |-> inc.val,
         use_core_translations |-> core.val,
         generate_source_language_translations |-> gen.val,
         debug |-> dbg.val]

(***************************************************************************)
(* Translations (translations.py): text -> language -> translation         *)
(***************************************************************************)
TranslationsContains(cache, text) == text \in DOMAIN cache

get_translations(cache, text) ==
    IF text \in DOMAIN cache THEN cache[text] ELSE EmptyMap

add_translation(cache, language, text, translation) ==
    Put(cache, text, Put(get_translations(cache, text), language, translation))

(***************************************************************************)
(* Prompt (prompt.py): a text and its language -> translation mapping      *)
(***************************************************************************)
NewPrompt(text) == [text |-> text, translations |-> EmptyMap]

\* the cached translations are copied onto the prompt
set_translations(prompt, tr) == [prompt EXCEPT !.translations = tr]

set_translation(prompt, language, translation) ==
    [prompt EXCEPT !.translations = Put(@, language, translation)]

\* the prompt's mapping has an entry for the language
has_translation(prompt, language) == language \in DOMAIN prompt.translations

get_translation(prompt, language) ==
    IF language \in DOMAIN prompt.translations THEN prompt.translations[language] ELSE ""

(***************************************************************************)
(* SourceFile (source_file.py): the prompts of one file, in discovery      *)
(* order, at most one per text                                             *)
(***************************************************************************)
\* search_prompts: one Prompt per distinct literal found in the file
search_prompts(texts) == [j \in 1..Len(texts) |-> NewPrompt(texts[j])]

\* get_prompts_and_translation: text -> translation; a prompt whose
\* translation is empty or absent is kept only with include_empty
get_prompts_and_translation(prompts, language, include_empty) ==
    LET kept == {j \in 1..Len(prompts) :
                    include_empty \/ get_translation(prompts[j], language) # ""}
    IN  [t \in {prompts[j].text : j \in kept} |->
            get_translation(prompts[CHOOSE j \in kept : prompts[j].text = t], language)]

(***************************************************************************)
(* State                                                                   *)
(***************************************************************************)
VARIABLES
    environ,            \* os.environ: input name -> text
    info_file,          \* plugin_info/info.json on disk: [exists, content]
    core_root,          \* the core checkout: [exists, files: language -> json file]
    translations_dir,   \* core/i18n of the plugin: language -> json file
    plugin_tree,        \* the files under the plugin directories
    self,               \* the fields of the PluginTranslator instance
    pc,                 \* where the instance is: a step of start(), or new/done/raised
    pos,                \* do_translate: number of prompts already resolved
    run,                \* number of instances constructed so far
    calls,              \* remote translate_text invocations of this instance
    written,            \* translation files written by this instance: language -> document
    info_written,       \* whether this instance wrote info.json
    info0,              \* info.json as it was when the instance was constructed
    cache0,             \* the cache as it was when do_translate started
    prev,               \* what the previous instance resolved and wrote
    now,                \* time.monotonic(), counted in default Throttle periods
    answers,            \* for each call of calls: when it was made, what came back
    provider_latency,   \* the times the provider may take to answer one call
    glossary_files,     \* the <language>_glossary.json files beside translator.py
    glossaries,         \* the glossaries the provider holds, as list_glossaries lists them
    glossary_log,       \* the glossary requests of this instance, in order
    throttle,           \* a Throttle instance: [throttle_period, time_of_last_call]
    executions          \* the runs of the function the Throttle instance wraps

vars == <<environ, info_file, core_root, translations_dir, plugin_tree, self, pc, pos,
          run, calls, written, info_written, info0, cache0, prev, now, answers,
          provider_latency, glossary_files, glossaries, glossary_log, throttle, executions>>

\* what the Throttle decorator owns
throttle_vars == <<throttle, executions>>

\* what a step of start() that talks to no provider leaves alone
provider_vars == <<now, answers, provider_latency, glossary_files, glossaries, glossary_log>>

(***************************************************************************)
(* JSON files. A path is the sequence of its segments. A written           *)
(* translation file holds the document with every "/" of a key escaped as  *)
(* "\/"; json.loads undoes the escape.                                     *)
(***************************************************************************)
RECURSIVE escape_slashes(_)
escape_slashes(path) ==
    IF Len(path) <= 1 THEN path
    ELSE <<Head(path), "\\/">> \o escape_slashes(Tail(path))

RECURSIVE unescape_slashes(_)
unescape_slashes(key) ==
    IF key = <<>> THEN <<>>
    ELSE IF Head(key) = "\\/" THEN unescape_slashes(Tail(key))
    ELSE <<Head(key)>> \o unescape_slashes(Tail(key))

\* json.dumps(document, sort_keys=True, indent=4).replace('/', r'\/')
json_dumps(document) ==
    [malformed |-> FALSE,
     text |-> [k \in {escape_slashes(path) : path \in DOMAIN document} |->
                  document[unescape_slashes(k)]]]

\* json.loads(file.read_text()): [ok, data]; ok = FALSE is the JSONDecodeError
json_loads(file) ==
    IF file.malformed THEN [ok |-> FALSE, data |-> EmptyMap]
    ELSE [ok |-> TRUE,
          data |-> [path \in {unescape_slashes(k) : k \in DOMAIN file.text} |->
                       file.text[escape_slashes(path)]]]

(***************************************************************************)
(* PluginTranslator: the fields set by __init__ before the inputs are read *)
(***************************************************************************)
\* None in the place of a deepl.GlossaryInfo
NoGlossary ==
    [is_none |-> TRUE, glossary_id |-> 0, name |-> <<>>, source_lang |-> "", target_lang |-> ""]

NoDescription == [kind |-> "absent", text |-> "", map |-> EmptyMap]

NoContent == [is_none |-> TRUE, id |-> "", language |-> <<>>, description |-> NoDescription]

NewInstance ==
    [files |-> <<>>,
     existing_translations |-> EmptyMap,
     source_language |-> "",
     target_languages |-> <<>>,
     include_empty_translation |-> FALSE,
     use_core_translations |-> TRUE,
     generate_source_language_translations |-> FALSE,
     deepl_translator |-> FALSE,
     deepl_api_key |-> None,
     api_call_counter |-> 0,
     info_json_content |-> NoContent,
     glossary |-> EmptyMap]

\* __read_info_json: [ok, content]; ok = FALSE is the RuntimeError
read_info_json(file) ==
    IF ~file.exists THEN [ok |-> FALSE, content |-> NoContent]
    ELSE [ok |-> TRUE, content |-> file.content]

plugin_id(s) ==
    IF ~s.info_json_content.is_none THEN s.info_json_content.id ELSE "unknown"

(***************************************************************************)
(* Remote provider: what translate_text may hand back. The call may also   *)
(* end with an exception of the deepl package (no connection, quota        *)
(* exceeded, too many requests, authorization refused).                    *)
(***************************************************************************)
RemoteOutcomes ==
    {[raises |-> FALSE, is_text_result |-> TRUE, text |-> "translated", latency |-> d] :
        d \in provider_latency}
    \cup {[raises |-> FALSE, is_text_result |-> TRUE, text |-> "", latency |-> d] :
            d \in provider_latency}
    \cup {[raises |-> FALSE, is_text_result |-> FALSE, text |-> "translated", latency |-> d] :
            d \in provider_latency}
    \cup {[raises |-> TRUE, is_text_result |-> FALSE, text |-> "", latency |-> d] :
            d \in provider_latency}

\* a step of start() works on st: the instance (self), the calls made so far
\* with their answers, the clock, the provider's glossaries and the glossary
\* requests; st.failed says that an exception is on its way out of start()

\* as if the counter counted the text results only
transalte_with_deepl_counting_results(st, text, target_language, outcome) ==
    IF ~st.self.deepl_translator THEN [st |-> st, result |-> ""]
    ELSE LET called == [st EXCEPT
                           !.calls = Append(@, [text |-> text, lang |-> target_language]),
                           !.answers = Append(@, [raises |-> outcome.raises,
                                                  is_text_result |-> outcome.is_text_result,
                                                  at |-> st.now,
                                                  phase |-> st.phase,
                                                  glossary |-> st.self.glossary[target_language]]),
                           !.now = @ + outcome.latency]
         IN  IF outcome.raises THEN [st |-> [called EXCEPT !.failed = TRUE], result |-> ""]
             ELSE IF ~outcome.is_text_result THEN [st |-> called, result |-> ""]
             ELSE [st |-> [called EXCEPT !.self.api_call_counter = @ + 1],
                   result |-> outcome.text]

\* transalte_with_deepl: [st, result]
transalte_with_deepl(st, text, target_language, outcome) ==
    IF ~st.self.deepl_translator THEN [st |-> st, result |-> ""]
    ELSE LET called == [st EXCEPT
                           !.self.api_call_counter = @ + 1,
                           !.calls = Append(@, [text |-> text, lang |-> target_language]),
                           !.answers = Append(@, [raises |-> outcome.raises,
                                                  is_text_result |-> outcome.is_text_result,
                                                  at |-> st.now,
                                                  phase |-> st.phase,
                                                  glossary |-> st.self.glossary[target_language]]),
                           !.now = @ + outcome.latency]
         IN  IF outcome.raises THEN [st |-> [called EXCEPT !.failed = TRUE], result |-> ""]
             ELSE [st |-> called,
                   result |-> IF outcome.is_text_result THEN outcome.text ELSE ""]

(***************************************************************************)
(* __create_deepl_glossaries. The text of a glossary file is held as the   *)
(* object it parses to: language -> terms. The glossary requests are       *)
(* taken to succeed.                                                       *)
(***************************************************************************)
LANGUAGES_TO_DEEPL_GLOSSARY ==
    (FR_FR :> "fr") @@ (EN_US :> "en") @@ (ES_ES :> "es") @@ (DE_DE :> "de")

\* hashlib.md5(...).hexdigest(): one digest per text
md5(str_entries) == <<"md5", str_entries>>

LogEntry(st, op, target_language, glossary_id) ==
    [op |-> op, run |-> st.run, target |-> target_language, glossary_id |-> glossary_id,
     calls |-> Len(st.calls)]

\* the provider names a new glossary as it named none before
FreshId(st) ==
    LET used == {0} \cup {st.glossaries[n].glossary_id : n \in 1..Len(st.glossaries)}
                    \cup {st.glossary_log[n].glossary_id : n \in 1..Len(st.glossary_log)}
    IN  1 + CHOOSE m \in used : \A u \in used : u <= m

RECURSIVE WithoutGlossary(_, _)
WithoutGlossary(list, glossary_id) ==
    IF list = <<>> THEN <<>>
    ELSE IF Head(list).glossary_id = glossary_id THEN WithoutGlossary(Tail(list), glossary_id)
    ELSE <<Head(list)>> \o WithoutGlossary(Tail(list), glossary_id)

\* deepl_translator.delete_glossary(deepl_glossary)
delete_glossary(st, target_language, deepl_glossary) ==
    [st EXCEPT !.glossaries = WithoutGlossary(@, deepl_glossary.glossary_id),
               !.glossary_log = Append(@, LogEntry(st, "delete", target_language,
                                                   deepl_glossary.glossary_id))]

\* deepl_translator.create_glossary(md5_hash, source_lang, target_lang, entries):
\* [st, glossary]
create_glossary(st, target_language, name, source_lang, target_lang) ==
    LET glossary == [is_none |-> FALSE, glossary_id |-> FreshId(st), name |-> name,
                     source_lang |-> source_lang, target_lang |-> target_lang]
    IN  [st |-> [st EXCEPT !.glossaries = Append(@, glossary),
                           !.glossary_log = Append(@, LogEntry(st, "create", target_language,
                                                               glossary.glossary_id))],
         glossary |-> glossary]

\* line 184-191, from listed glossary number n on
RECURSIVE check_glossaries(_, _, _, _, _)
check_glossaries(st, deepl_glossaries, md5_hash, target_language, n) ==
    IF n > Len(deepl_glossaries) THEN st
    ELSE LET deepl_glossary == deepl_glossaries[n]
         IN  IF deepl_glossary.source_lang
                    = LANGUAGES_TO_DEEPL_GLOSSARY[st.self.source_language]
                /\ deepl_glossary.target_lang = LANGUAGES_TO_DEEPL_GLOSSARY[target_language]
             THEN IF deepl_glossary.name = md5_hash
                  THEN check_glossaries(
                           [st EXCEPT !.self.glossary[target_language] = deepl_glossary],
                           deepl_glossaries, md5_hash, target_language, n + 1)
                  ELSE check_glossaries(delete_glossary(st, target_language, deepl_glossary),
                                        deepl_glossaries, md5_hash, target_language, n + 1)
             ELSE check_glossaries(st, deepl_glossaries, md5_hash, target_language, n + 1)

\* as if the glossary of the right name were not looked for
glossary_for_target_always_created(st, deepl_glossaries, md5_hash, target_language) ==
    LET created == create_glossary(st, target_language, md5_hash,
                                   LANGUAGES_TO_DEEPL_GLOSSARY[st.self.source_language],
                                   LANGUAGES_TO_DEEPL_GLOSSARY[target_language])
    IN  [created.st EXCEPT !.self.glossary[target_language] = created.glossary]

\* line 182-195: one target language that has entries
glossary_for_target(st, deepl_glossaries, md5_hash, target_language) ==
    LET checked == check_glossaries(st, deepl_glossaries, md5_hash, target_language, 1)
        created == create_glossary(checked, target_language, md5_hash,
                                   LANGUAGES_TO_DEEPL_GLOSSARY[st.self.source_language],
                                   LANGUAGES_TO_DEEPL_GLOSSARY[target_language])
    IN  IF checked.self.glossary[target_language].is_none
        THEN [created.st EXCEPT !.self.glossary[target_language] = created.glossary]
        ELSE checked

\* line 179-195, from target language number k on
RECURSIVE glossaries_for_targets(_, _, _, _, _)
glossaries_for_targets(st, deepl_glossaries, md5_hash, entries, k) ==
    IF k > Len(st.self.target_languages) THEN st
    ELSE LET target_language == st.self.target_languages[k]
         IN  IF target_language = st.self.source_language
                \/ target_language \notin DOMAIN entries
             THEN glossaries_for_targets(st, deepl_glossaries, md5_hash, entries, k + 1)
             ELSE glossaries_for_targets(
                      glossary_for_target(st, deepl_glossaries, md5_hash, target_language),
                      deepl_glossaries, md5_hash, entries, k + 1)

create_deepl_glossaries(st) ==
    LET entered == [st EXCEPT !.glossary_log = Append(@, LogEntry(st, "sync", "", 0))]
        str_entries == glossary_files[st.self.source_language].text
        listed == [entered EXCEPT !.glossary_log = Append(@, LogEntry(st, "list", "", 0))]
    IN  IF st.self.source_language \notin DOMAIN glossary_files THEN entered
        ELSE glossaries_for_targets(listed, listed.glossaries, md5(str_entries),
                                    str_entries, 1)

\* the deepl_translator property: st after the access; the field
\* deepl_translator of st.self is what the access returns (FALSE is None)
deepl_translator_without_key(st) ==
    [st EXCEPT !.self.deepl_translator = TRUE]

\* as if the glossaries were brought up to date at each access
deepl_translator_resyncing(st) ==
    IF st.self.deepl_api_key # None
    THEN create_deepl_glossaries([st EXCEPT !.self.deepl_translator = TRUE])
    ELSE st

deepl_translator(st) ==
    IF st.self.deepl_translator THEN st
    ELSE IF st.self.deepl_api_key # None
    THEN create_deepl_glossaries([st EXCEPT !.self.deepl_translator = TRUE])
    ELSE st

(***************************************************************************)
(* Loading the cache                                                       *)
(***************************************************************************)
\* the two inner loops of _get_translations_from_json_files over one parsed
\* document (the groups of one document agree on the texts they share, so
\* that the order in which the groups are visited does not show)
RECURSIVE add_document_swapped(_, _, _, _)
add_document_swapped(cache, language, data, texts) ==
    IF texts = {} THEN cache
    ELSE LET text == CHOOSE t \in texts : TRUE
             path == CHOOSE g \in DOMAIN data : text \in DOMAIN data[g]
         IN  add_document_swapped(add_translation(cache, text, language, data[path][text]),
                                  language, data, texts \ {text})

RECURSIVE add_document(_, _, _, _)
add_document(cache, language, data, texts) ==
    IF texts = {} THEN cache
    ELSE LET text == CHOOSE t \in texts : TRUE
             path == CHOOSE g \in DOMAIN data : text \in DOMAIN data[g]
         IN  add_document(add_translation(cache, language, text, data[path][text]),
                          language, data, texts \ {text})

DocumentTexts(data) == UNION {DOMAIN data[path] : path \in DOMAIN data}

\* as if the try enclosed the loop over the languages
RECURSIVE get_translations_from_json_files_stopping(_, _, _, _)
get_translations_from_json_files_stopping(cache, target_languages, k, dir) ==
    IF k > Len(target_languages) THEN cache
    ELSE LET language == target_languages[k]
             loaded == json_loads(dir[language])
         IN  IF language \notin DOMAIN dir
             THEN get_translations_from_json_files_stopping(cache, target_languages, k + 1,
                                                            dir)
             ELSE IF ~loaded.ok
             THEN cache
             ELSE get_translations_from_json_files_stopping(
                      add_document(cache, language, loaded.data, DocumentTexts(loaded.data)),
                      target_languages, k + 1, dir)

\* _get_translations_from_json_files, from target language number k on
RECURSIVE get_translations_from_json_files(_, _, _, _)
get_translations_from_json_files(cache, target_languages, k, dir) ==
    IF k > Len(target_languages) THEN cache
    ELSE LET language == target_languages[k]
             loaded == json_loads(dir[language])
         IN  IF language \notin DOMAIN dir
             THEN get_translations_from_json_files(cache, target_languages, k + 1, dir)
             ELSE IF ~loaded.ok
             THEN get_translations_from_json_files(cache, target_languages, k + 1, dir)
             ELSE get_translations_from_json_files(
                      add_document(cache, language, loaded.data, DocumentTexts(loaded.data)),
                      target_languages, k + 1, dir)

(***************************************************************************)
(* find_prompts_in_all_files                                               *)
(***************************************************************************)
PLUGIN_DIRS == {"core", "desktop", "plugin_info"}

\* the walk does not descend into the i18n directory of a directory core
InCoreI18n(dir) == \E i \in 1..(Len(dir) - 1) : dir[i] = "core" /\ dir[i + 1] = "i18n"

Eligible(entry) ==
    /\ entry.dir[1] \in PLUGIN_DIRS
    /\ ~InCoreI18n(entry.dir)
    /\ entry.name # "info.json"
    /\ entry.suffix \in FILE_EXTS

\* as if the group key were the path below the plugin's root
jeedom_file_path_relative(s, entry) == entry.dir \o <<entry.name>>

jeedom_file_path(s, entry) == <<"plugins", plugin_id(s)>> \o entry.dir \o <<entry.name>>

RECURSIVE find_prompts_in_all_files(_, _, _)
find_prompts_in_all_files(s, tree, k) ==
    IF k > Len(tree) THEN s
    ELSE IF ~Eligible(tree[k]) THEN find_prompts_in_all_files(s, tree, k + 1)
    ELSE find_prompts_in_all_files(
             [s EXCEPT !.files = Append(@, [path |-> jeedom_file_path(s, tree[k]),
                                            prompts |-> search_prompts(tree[k].texts)])],
             tree, k + 1)

(***************************************************************************)
(* do_translate                                                            *)
(***************************************************************************)
\* the (file, prompt) positions in the order of the two loops
RECURSIVE PromptPositions(_, _)
PromptPositions(files, i) ==
    IF i > Len(files) THEN <<>>
    ELSE [j \in 1..Len(files[i].prompts) |-> <<i, j>>] \o PromptPositions(files, i + 1)

\* line 223-226: the cached translations of the text, when there are any
from_existing_translations(prompt, cache) ==
    IF TranslationsContains(cache, prompt.text)
    THEN set_translations(prompt, get_translations(cache, prompt.text))
    ELSE prompt

\* line 229
store_source_text_skipped(prompt, source_language) == prompt

store_source_text(prompt, source_language) ==
    set_translation(prompt, source_language, prompt.text)

\* line 234-236: the languages the provider is asked for
needs_remote_ignoring_prompt(prompt, target_language, source_language) ==
    target_language # source_language

needs_remote(prompt, target_language, source_language) ==
    target_language # source_language /\ ~has_translation(prompt, target_language)

\* line 239
remember_translation_forgotten(cache, target_language, text, tr) == cache

remember_translation(cache, target_language, text, tr) ==
    add_translation(cache, target_language, text, tr)

\* line 237-239 after the provider answered with outcome: [st, prompt]
translate_one(st, prompt, target_language, outcome) ==
    LET got == transalte_with_deepl(st, prompt.text, target_language, outcome)
    IN  IF got.st.failed THEN [st |-> got.st, prompt |-> prompt]
        ELSE [st |-> [got.st EXCEPT !.self.existing_translations =
                         remember_translation(@, target_language, prompt.text, got.result)],
              prompt |-> set_translation(prompt, target_language, got.result)]

\* line 233-239 from target language number k on: every [st, prompt] the
\* answers of the provider can lead to
RECURSIVE translate_missing(_, _, _)
translate_missing(st, prompt, k) ==
    IF st.failed \/ k > Len(st.self.target_languages) THEN {[st |-> st, prompt |-> prompt]}
    ELSE LET target_language == st.self.target_languages[k]
         IN  IF ~needs_remote(prompt, target_language, st.self.source_language)
             THEN translate_missing(st, prompt, k + 1)
             ELSE UNION {LET one == translate_one(st, prompt, target_language, outcome)
                         IN  translate_missing(one.st, one.prompt, k + 1) :
                            outcome \in RemoteOutcomes}

\* one turn of the inner loop of do_translate (line 221-239) on prompt j of
\* file i: every st the answers of the provider can lead to
resolve_prompt(st, i, j) ==
    LET p0 == st.self.files[i].prompts[j]
        p1 == from_existing_translations(p0, st.self.existing_translations)
        p2 == store_source_text(p1, st.self.source_language)
        st1 == deepl_translator(st)
        ends == IF st1.self.deepl_translator
                THEN translate_missing(st1, p2, 1)
                ELSE {[st |-> st1, prompt |-> p2]}
    IN  {[done.st EXCEPT !.self.files[i].prompts[j] = done.prompt] : done \in ends}

(***************************************************************************)
(* translate_info_json                                                     *)
(***************************************************************************)
\* as if the description were asked for every target language
RECURSIVE translate_descriptions_overwriting(_, _, _, _)
translate_descriptions_overwriting(st, descriptions, source_desc, k) ==
    IF st.failed \/ k > Len(st.self.target_languages)
    THEN {[st |-> st, descriptions |-> descriptions]}
    ELSE LET target_language == st.self.target_languages[k]
         IN  UNION {LET got == transalte_with_deepl(st, source_desc, target_language, outcome)
                    IN  translate_descriptions_overwriting(
                            got.st,
                            IF got.st.failed THEN descriptions
                            ELSE Put(descriptions, target_language, got.result),
                            source_desc, k + 1) :
                       outcome \in RemoteOutcomes}

\* line 260-264 from target language number k on: every [st, descriptions]
\* the answers of the provider can lead to
RECURSIVE translate_descriptions(_, _, _, _)
translate_descriptions(st, descriptions, source_desc, k) ==
    IF st.failed \/ k > Len(st.self.target_languages)
    THEN {[st |-> st, descriptions |-> descriptions]}
    ELSE LET target_language == st.self.target_languages[k]
         IN  IF target_language \in DOMAIN descriptions /\ descriptions[target_language] # ""
             THEN translate_descriptions(st, descriptions, source_desc, k + 1)
             ELSE UNION {LET got == transalte_with_deepl(st, source_desc, target_language,
                                                         outcome)
                         IN  translate_descriptions(
                                 got.st,
                                 IF got.st.failed THEN descriptions
                                 ELSE Put(descriptions, target_language, got.result),
                                 source_desc, k + 1) :
                            outcome \in RemoteOutcomes}

\* every st the answers of the provider can lead to
translate_info_json(st) ==
    LET st1 == deepl_translator(st)
        content == st1.self.info_json_content
        descriptions == IF content.description.kind = "dict"
                        THEN content.description.map
                        ELSE Put(EmptyMap, st1.self.source_language, content.description.text)
        ends == translate_descriptions(st1, descriptions,
                                       descriptions[st1.self.source_language], 1)
    IN  IF ~st1.self.deepl_translator THEN {st1}
        ELSE IF content.is_none THEN {st1}
        ELSE IF content.description.kind = "absent" THEN {st1}
        ELSE IF st1.self.source_language \notin DOMAIN descriptions THEN {st1}
        ELSE {IF done.st.failed /\ content.description.kind # "dict" THEN done.st
              ELSE [done.st EXCEPT !.self.info_json_content.description =
                       [kind |-> "dict", text |-> "", map |-> done.descriptions]] :
                 done \in ends}

(***************************************************************************)
(* write_plugin_translations                                               *)
(***************************************************************************)
\* line 326-330: the document of one language
language_result_with_empty_groups(files, target_language, include_empty) ==
    [path \in {files[i].path : i \in 1..Len(files)} |->
        get_prompts_and_translation(
            files[CHOOSE i \in 1..Len(files) : files[i].path = path].prompts,
            target_language, include_empty)]

language_result_always_with_empty(files, target_language, include_empty) ==
    LET prompts(i) == get_prompts_and_translation(files[i].prompts, target_language, TRUE)
        kept == {i \in 1..Len(files) : DOMAIN prompts(i) # {}}
    IN  [path \in {files[i].path : i \in kept} |->
            prompts(CHOOSE i \in kept : files[i].path = path)]

language_result(files, target_language, include_empty) ==
    LET prompts(i) == get_prompts_and_translation(files[i].prompts, target_language,
                                                  include_empty)
        kept == {i \in 1..Len(files) : DOMAIN prompts(i) # {}}
    IN  [path \in {files[i].path : i \in kept} |->
            prompts(CHOOSE i \in kept : files[i].path = path)]

\* line 320-334 from target language number k on: [dir, written]
RECURSIVE write_plugin_translations(_, _, _)
write_plugin_translations(s, out, k) ==
    IF k > Len(s.target_languages) THEN out
    ELSE LET target_language == s.target_languages[k]
             document == language_result(s.files, target_language,
                                         s.include_empty_translation)
         IN  IF target_language = s.source_language
                /\ ~s.generate_source_language_translations
             THEN write_plugin_translations(s, out, k + 1)
             ELSE IF DOMAIN document = {}
             THEN write_plugin_translations(s, out, k + 1)
             ELSE write_plugin_translations(
                      s,
                      [dir |-> Put(out.dir, target_language, json_dumps(document)),
                       written |-> Put(out.written, target_language, document)],
                      k + 1)

(***************************************************************************)
(* __write_info_json                                                       *)
(***************************************************************************)
\* line 165
info_languages_unsorted(source_language, target_languages) ==
    <<source_language>> \o target_languages

info_languages(source_language, target_languages) ==
    SortedSet({source_language} \cup Range(target_languages))

\* [self, file, wrote]
write_info_json(s, file) ==
    IF s.info_json_content.is_none THEN [self |-> s, file |-> file, wrote |-> FALSE]
    ELSE LET content == [s.info_json_content EXCEPT
                            !.language = info_languages(s.source_language, s.target_languages)]
         IN  [self |-> [s EXCEPT !.info_json_content = content],
              file |-> [exists |-> TRUE, content |-> content],
              wrote |-> TRUE]

(***************************************************************************)
(* start(): the calls it makes, in order                                   *)
(***************************************************************************)
StartOrderCoreLast ==
    <<"get_plugin_translations", "find_prompts_in_all_files", "do_translate",
      "translate_info_json", "write_plugin_translations", "write_info_json",
      "get_core_translations">>

StartOrderWriteFirst ==
    <<"get_plugin_translations", "get_core_translations", "find_prompts_in_all_files",
      "write_plugin_translations", "do_translate", "translate_info_json",
      "write_info_json">>

StartOrder ==
    <<"get_plugin_translations", "get_core_translations", "find_prompts_in_all_files",
      "do_translate", "translate_info_json", "write_plugin_translations",
      "write_info_json">>

After(step) ==
    IF IndexOf(StartOrder, step) = Len(StartOrder) THEN "done"
    ELSE StartOrder[IndexOf(StartOrder, step) + 1]

(***************************************************************************)
(* The environments, directories and files explored                        *)
(***************************************************************************)
\* an input is a set holding its text, or the empty set when it is not set
EnvOf(src, tgt, key, inc, core, gen, dbg) ==
    LET given == (INPUT_SOURCE_LANGUAGE :> src) @@ (INPUT_TARGET_LANGUAGES :> tgt)
                 @@ (INPUT_DEEPL_API_KEY :> key) @@ (INPUT_INCLUDE_EMPTY_TRANSLATION :> inc)
                 @@ (INPUT_USE_CORE_TRANSLATIONS :> core)
                 @@ (INPUT_GENERATE_SOURCE_LANGUAGE_TRANSLATIONS :> gen)
                 @@ (INPUT_DEBUG :> dbg)
    IN  [name \in {n \in DOMAIN given : given[n] # {}} |-> CHOOSE t \in given[name] : TRUE]

\* "a, b, c": the codes separated by a comma and a blank
RECURSIVE JoinComma(_)
JoinComma(list) ==
    IF Len(list) <= 1 THEN list
    ELSE <<Head(list), ",", " ">> \o JoinComma(Tail(list))

TargetOrder == <<EN_US, FR_FR, ES_ES, DE_DE>>

TargetLists == {SubSeq(TargetOrder, 1, n) : n \in 1..MaxTargets}

Entry(dir, name, suffix, texts) ==
    [dir |-> dir, name |-> name, suffix |-> suffix, texts |-> texts]

TreeEmpty == <<>>

TreeNoPrompt == <<Entry(<<"core", "class">>, "a.php", ".php", <<>>)>>

TreeShared ==
    <<Entry(<<"core", "class">>, "a.php", ".php", <<"Hello", "Bye">>),
      Entry(<<"desktop", "php">>, "b.php", ".php", <<"Hello">>)>>

TreeMixed ==
    <<Entry(<<"plugin_info">>, "info.json", ".json", <<"Hello">>),
      Entry(<<"core", "i18n">>, "en_US.json", ".json", <<"Hello">>),
      Entry(<<"core", "class">>, "notes.txt", ".txt", <<"Hello">>),
      Entry(<<"desktop", "js">>, "c.js", ".js", <<"Bye">>),
      Entry(<<"desktop", "js">>, "d.js", ".js", <<>>)>>

Trees == {TreeEmpty, TreeNoPrompt, TreeShared, TreeMixed}

GroupA == <<"plugins", "demo", "core", "class", "a.php">>
GroupOld == <<"plugins", "demo", "core", "class", "old.php">>
GroupCore == <<"core", "class", "jeedom.class.php">>

DirEmpty == EmptyMap

DirPartial == EN_US :> json_dumps(GroupA :> ("Hello" :> "Hi"))

DirStale ==
    (EN_US :> json_dumps(GroupOld :> (("Hello" :> "") @@ ("Gone" :> "old"))))
    @@ (FR_FR :> json_dumps(GroupA :> ("Hello" :> "Salut")))

Dirs == {DirEmpty, DirPartial, DirStale}

\* a file json.loads rejects with JSONDecodeError: an empty file (touch), or
\* any text that is not JSON
MalformedFile == [malformed |-> TRUE, text |-> EmptyMap]

Greeting == (EN_US :> "Hi") @@ (FR_FR :> "Salut") @@ (ES_ES :> "Hola") @@ (DE_DE :> "Hallo")

\* every language has its file, and the file of one language is malformed
DirBrokenAt(language) ==
    [l \in Range(ALL_LANGUAGES) |->
        IF l = language THEN MalformedFile
        ELSE json_dumps(GroupA :> ("Hello" :> Greeting[l]))]

CoreMissing == [exists |-> FALSE, files |-> EmptyMap]

CorePresent ==
    [exists |-> TRUE,
     files |-> EN_US :> json_dumps(GroupCore :> (("Bye" :> "Goodbye") @@ ("Hello" :> "Hello there")))]

CoreBroken ==
    [exists |-> TRUE,
     files |-> (EN_US :> MalformedFile)
               @@ (ES_ES :> json_dumps(GroupCore :> ("Bye" :> "Adios")))]

InfoMissing == [exists |-> FALSE, content |-> NoContent]

InfoPlain ==
    [exists |-> TRUE,
     content |-> [is_none |-> FALSE, id |-> "demo", language |-> <<>>,
                  description |-> NoDescription]]

InfoDescribed ==
    [exists |-> TRUE,
     content |-> [is_none |-> FALSE, id |-> "demo", language |-> <<FR_FR, EN_US, ES_ES, DE_DE>>,
                  description |-> [kind |-> "str", text |-> "Un plugin", map |-> EmptyMap]]]

\* no glossary file, no glossary at the provider, and a provider that
\* answers within less than one unit of the clock
\* the description is a mapping: written by hand for two languages, empty
\* for a third
InfoMapped ==
    [exists |-> TRUE,
     content |-> [is_none |-> FALSE, id |-> "demo", language |-> <<FR_FR>>,
                  description |-> [kind |-> "dict", text |-> "",
                                   map |-> (FR_FR :> "Un plugin") @@ (EN_US :> "A plugin")
                                           @@ (ES_ES :> "")]]]

\* the description is a mapping without the language fr_FR
InfoNoSource ==
    [exists |-> TRUE,
     content |-> [is_none |-> FALSE, id |-> "demo", language |-> <<FR_FR>>,
                  description |-> [kind |-> "dict", text |-> "",
                                   map |-> (EN_US :> "A plugin")]]]

\* the description is a mapping in which the text for fr_FR is present but
\* empty
InfoEmptySource ==
    [exists |-> TRUE,
     content |-> [is_none |-> FALSE, id |-> "demo", language |-> <<FR_FR>>,
                  description |-> [kind |-> "dict", text |-> "",
                                   map |-> (FR_FR :> "") @@ (EN_US :> "A plugin")]]]

Configuration(env, info, core, dir, tree) ==
    [environ |-> env, info_file |-> info, core_root |-> core, translations_dir |-> dir,
     plugin_tree |-> tree, provider_latency |-> {0}, glossary_files |-> EmptyMap,
     glossaries |-> <<>>]

\* complete runs: every input is valid
RunConfiguration(src, tgt, key, inc, flag, gen, info, core, dir, tree) ==
    Configuration(EnvOf({<<src>>}, {JoinComma(tgt)}, key, {<<inc>>}, {<<flag>>}, {<<gen>>},
                        {<<"True">>}),
                  info, core, dir, tree)

\* a provider is configured and prompts miss translations
TranslateRuns ==
    {RunConfiguration(FR_FR, tgt, {<<"key">>}, inc, "false", "false", InfoPlain, CorePresent,
                      dir, TreeShared) :
        tgt \in TargetLists, inc \in {"true", "false"}, dir \in Dirs}
    \cup {RunConfiguration(EN_US, tgt, {<<"key">>}, "false", "false", "false", InfoPlain,
                           CorePresent, DirPartial, TreeShared) :
             tgt \in TargetLists}

\* the shared core dictionary is asked for
CoreRuns ==
    {RunConfiguration(FR_FR, tgt, key, "false", "true", "false", InfoPlain, core, dir,
                      TreeShared) :
        tgt \in TargetLists, key \in {{}, {<<"key">>}}, core \in {CoreMissing, CorePresent},
        dir \in {DirEmpty, DirPartial}}
    \cup {RunConfiguration(FR_FR, tgt, {}, "false", "true", "false", InfoPlain, CorePresent,
                           DirEmpty, TreeMixed) :
             tgt \in TargetLists}

\* no provider: what is written comes from the translation files alone
OutputRuns ==
    {RunConfiguration(src, tgt, {}, inc, "false", gen, InfoDescribed, CorePresent, dir,
                      tree) :
        src \in {FR_FR, EN_US}, tgt \in TargetLists, inc \in {"true", "false"},
        gen \in {"true", "false"}, dir \in Dirs, tree \in Trees}

\* a provider is configured and info.json has a description
InfoRuns ==
    {RunConfiguration(src, tgt, {<<"key">>}, "false", "false", "false", InfoDescribed,
                      CorePresent, DirEmpty, tree) :
        src \in {FR_FR, EN_US}, tgt \in TargetLists, tree \in {TreeNoPrompt, TreeMixed}}

\* fr_FR_glossary.json: terms for two languages, or for one
TermsBoth == (EN_US :> "termes en") @@ (ES_ES :> "termes es")
TermsEnglish == EN_US :> "termes en"
TermsOld == EN_US :> "anciens termes"

GlossaryFiles == {EmptyMap, FR_FR :> [text |-> TermsBoth], FR_FR :> [text |-> TermsEnglish]}

Glossary(glossary_id, str_entries, source_language, target_language) ==
    [is_none |-> FALSE, glossary_id |-> glossary_id, name |-> md5(str_entries),
     source_lang |-> LANGUAGES_TO_DEEPL_GLOSSARY[source_language],
     target_lang |-> LANGUAGES_TO_DEEPL_GLOSSARY[target_language]]

\* what the provider holds before the run: nothing; an outdated and an up to
\* date glossary fr -> en beside a glossary of another pair; outdated ones only
ProviderGlossaries ==
    {<<>>,
     <<Glossary(1, TermsOld, FR_FR, EN_US), Glossary(2, TermsBoth, FR_FR, EN_US),
       Glossary(3, TermsBoth, DE_DE, EN_US)>>,
     <<Glossary(1, TermsOld, FR_FR, EN_US), Glossary(2, TermsEnglish, FR_FR, EN_US),
       Glossary(3, TermsOld, FR_FR, ES_ES)>>}

\* a provider is configured and may hold glossaries; the first access to
\* the provider is made for a prompt, or for the description
GlossaryRuns ==
    {[RunConfiguration(FR_FR, tgt, {<<"key">>}, "false", "false", "false", c[1], CorePresent,
                       DirEmpty, c[2])
         EXCEPT !.glossary_files = files, !.glossaries = held] :
        tgt \in TargetLists, files \in GlossaryFiles, held \in ProviderGlossaries,
        c \in {<<InfoPlain, TreeMixed>>, <<InfoDescribed, TreeNoPrompt>>}}

\* the provider takes its time, or does not
PacedRuns ==
    {[RunConfiguration(FR_FR, tgt, {<<"key">>}, "false", "false", "false", InfoPlain,
                       CorePresent, DirEmpty, TreeMixed)
         EXCEPT !.provider_latency = {0, DefaultSeconds}] :
        tgt \in TargetLists}

\* info.json describes the plugin in several languages
DescriptionRuns ==
    {RunConfiguration(src, tgt, key, "false", "false", "false", info, CorePresent, DirEmpty,
                      TreeNoPrompt) :
        src \in {FR_FR, EN_US}, tgt \in TargetLists, key \in {{}, {<<"key">>}},
        info \in {InfoMapped, InfoNoSource, InfoEmptySource}}

\* a translation file of the plugin, or of the core, is malformed
BrokenRuns ==
    {RunConfiguration(FR_FR, tgt, {}, "false", flag, "false", InfoPlain, CoreBroken,
                      DirBrokenAt(language), TreeShared) :
        tgt \in TargetLists, flag \in {"true", "false"}, language \in {EN_US, FR_FR, ES_ES}}

RunConfigurations ==
    TranslateRuns \cup CoreRuns \cup OutputRuns \cup InfoRuns \cup DescriptionRuns
    \cup BrokenRuns \cup GlossaryRuns \cup PacedRuns

\* one input, or info.json, is wrong
BadConfigurations ==
    {Configuration(env, info, CorePresent, DirPartial, TreeShared) :
        env \in {EnvOf({<<"xx_XX">>}, {<<EN_US>>}, {<<"key">>}, {<<"true">>}, {<<"true">>},
                       {<<"true">>}, {<<"true">>}),
                 EnvOf({}, {<<EN_US>>}, {<<"key">>}, {<<"true">>}, {<<"true">>},
                       {<<"true">>}, {<<"true">>}),
                 EnvOf({<<FR_FR>>}, {<<EN_US, ",", "xx_XX">>}, {<<"key">>}, {<<"true">>},
                       {<<"true">>}, {<<"true">>}, {<<"true">>}),
                 EnvOf({<<FR_FR>>}, {}, {<<"key">>}, {<<"true">>}, {<<"true">>},
                       {<<"true">>}, {<<"true">>}),
                 EnvOf({<<FR_FR>>}, {<<EN_US>>}, {<<"key">>}, {<<"yes">>}, {<<"true">>},
                       {<<"true">>}, {<<"true">>}),
                 EnvOf({<<FR_FR>>}, {<<EN_US>>}, {<<"key">>}, {<<"true">>}, {<<"1">>},
                       {<<"true">>}, {<<"true">>}),
                 EnvOf({<<FR_FR>>}, {<<EN_US>>}, {<<"key">>}, {<<"true">>}, {<<"true">>},
                       {}, {<<"true">>}),
                 EnvOf({<<FR_FR>>}, {<<EN_US>>}, {<<"key">>}, {<<"true">>}, {<<"true">>},
                       {<<"true">>}, {<<" ">>})},
        info \in {InfoPlain}}
    \cup {Configuration(EnvOf({<<FR_FR>>}, {<<EN_US>>}, {<<"key">>}, {<<"true">>},
                              {<<"true">>}, {<<"true">>}, {<<"true">>}),
                        InfoMissing, CorePresent, DirPartial, TreeShared)}

Configurations == RunConfigurations \cup BadConfigurations

\* Throttle(seconds)
Throttle(seconds) == [throttle_period |-> seconds, time_of_last_call |-> 0]

NoPrev == [valid |-> FALSE, files |-> <<>>, written |-> EmptyMap, calls |-> <<>>]

InitCoordinator(configurations) ==
    /\ \E c \in configurations :
          /\ environ = c.environ
          /\ info_file = c.info_file
          /\ core_root = c.core_root
          /\ translations_dir = c.translations_dir
          /\ plugin_tree = c.plugin_tree
          /\ provider_latency = c.provider_latency
          /\ glossary_files = c.glossary_files
          /\ glossaries = c.glossaries
    /\ answers = <<>>
    /\ glossary_log = <<>>
    /\ self = NewInstance
    /\ pc = "new"
    /\ pos = 0
    /\ run = 0
    /\ calls = <<>>
    /\ written = EmptyMap
    /\ info_written = FALSE
    /\ info0 = info_file
    /\ cache0 = EmptyMap
    /\ prev = NoPrev

\* the clock starts at 0; the Throttle of the module is not used by
\* translator.py
InitOf(configurations) ==
    /\ InitCoordinator(configurations)
    /\ now = 0
    /\ throttle = Throttle(DefaultSeconds)
    /\ executions = <<>>

Init == InitOf(Configurations)

(***************************************************************************)
(* Actions                                                                 *)
(***************************************************************************)
\* what a step of start() starts from, and what it leaves
St ==
    [self |-> self, calls |-> calls, answers |-> answers, now |-> now, failed |-> FALSE,
     glossaries |-> glossaries, glossary_log |-> glossary_log, run |-> run, phase |-> pc]

Becomes(st) ==
    /\ self' = st.self
    /\ calls' = st.calls
    /\ answers' = st.answers
    /\ now' = st.now
    /\ glossaries' = st.glossaries
    /\ glossary_log' = st.glossary_log

\* PluginTranslator(cwd): __init__, in a fresh process or after an earlier
\* instance in the same working directory has finished
Construct ==
    /\ pc = "new" \/ (pc = "done" /\ run < MaxRuns)
    /\ LET inputs == get_inputs(environ)
           info == read_info_json(info_file)
       IN  IF inputs.ok /\ info.ok
           THEN /\ self' = [NewInstance EXCEPT
                               !.source_language = inputs.source_language,
                               !.target_languages = inputs.target_languages,
                               !.deepl_api_key = inputs.deepl_api_key,
                               !.include_empty_translation = inputs.include_empty_translation,
                               !.use_core_translations = inputs.use_core_translations,
                               !.generate_source_language_translations =
                                   inputs.generate_source_language_translations,
                               !.info_json_content = info.content,
                               !.glossary = [lang \in Range(inputs.target_languages) |->
                                                NoGlossary]]
                /\ pc' = StartOrder[1]
           ELSE /\ self' = NewInstance
                /\ pc' = "raised"
    /\ run' = run + 1
    /\ pos' = 0
    /\ calls' = <<>>
    /\ answers' = <<>>
    /\ written' = EmptyMap
    /\ info_written' = FALSE
    /\ info0' = info_file
    /\ cache0' = EmptyMap
    /\ prev' = IF pc = "done"
               THEN [valid |-> TRUE, files |-> self.files, written |-> written, calls |-> calls]
               ELSE prev
    /\ UNCHANGED <<environ, info_file, core_root, translations_dir, plugin_tree, now,
                   provider_latency, glossary_files, glossaries, glossary_log>>
    /\ UNCHANGED throttle_vars

GetPluginTranslations ==
    /\ pc = "get_plugin_translations"
    /\ self' = [self EXCEPT !.existing_translations =
                   get_translations_from_json_files(@, self.target_languages, 1,
                                                    translations_dir)]
    /\ pc' = After("get_plugin_translations")
    /\ UNCHANGED <<environ, info_file, core_root, translations_dir, plugin_tree, pos, run,
                   calls, written, info_written, info0, cache0, prev>>
    /\ UNCHANGED provider_vars
    /\ UNCHANGED throttle_vars

\* line 88-89 of start() and get_core_translations
GetCoreTranslations ==
    /\ pc = "get_core_translations"
    /\ IF self.use_core_translations /\ ~core_root.exists
       THEN pc' = "raised" /\ self' = self
       ELSE /\ pc' = After("get_core_translations")
            /\ self' = IF self.use_core_translations
                       THEN [self EXCEPT !.existing_translations =
                                get_translations_from_json_files(@, self.target_languages, 1,
                                                                 core_root.files)]
                       ELSE self
    /\ UNCHANGED <<environ, info_file, core_root, translations_dir, plugin_tree, pos, run,
                   calls, written, info_written, info0, cache0, prev>>
    /\ UNCHANGED provider_vars
    /\ UNCHANGED throttle_vars

FindPromptsInAllFiles ==
    /\ pc = "find_prompts_in_all_files"
    /\ self' = find_prompts_in_all_files(self, plugin_tree, 1)
    /\ pc' = After("find_prompts_in_all_files")
    /\ UNCHANGED <<environ, info_file, core_root, translations_dir, plugin_tree, pos, run,
                   calls, written, info_written, info0, cache0, prev>>
    /\ UNCHANGED provider_vars
    /\ UNCHANGED throttle_vars

\* do_translate: the next prompt
DoTranslatePrompt ==
    /\ pc = "do_translate"
    /\ pos < Len(PromptPositions(self.files, 1))
    /\ LET at == PromptPositions(self.files, 1)[pos + 1]
       IN  \E st \in resolve_prompt(St, at[1], at[2]) :
              /\ Becomes(st)
              /\ pc' = IF st.failed THEN "aborted" ELSE pc
              /\ pos' = IF st.failed THEN pos ELSE pos + 1
    /\ cache0' = IF pos = 0 THEN self.existing_translations ELSE cache0
    /\ UNCHANGED <<environ, info_file, core_root, translations_dir, plugin_tree, run,
                   written, info_written, info0, prev, provider_latency, glossary_files>>
    /\ UNCHANGED throttle_vars

\* do_translate: the loops are over
DoTranslateReturn ==
    /\ pc = "do_translate"
    /\ pos = Len(PromptPositions(self.files, 1))
    /\ pc' = After("do_translate")
    /\ pos' = 0
    /\ cache0' = IF pos = 0 THEN self.existing_translations ELSE cache0
    /\ UNCHANGED <<environ, info_file, core_root, translations_dir, plugin_tree, self, run,
                   calls, written, info_written, info0, prev>>
    /\ UNCHANGED provider_vars
    /\ UNCHANGED throttle_vars

TranslateInfoJson ==
    /\ pc = "translate_info_json"
    /\ \E st \in translate_info_json(St) :
          /\ Becomes(st)
          /\ pc' = IF st.failed THEN "aborted" ELSE After("translate_info_json")
    /\ UNCHANGED <<environ, info_file, core_root, translations_dir, plugin_tree, pos, run,
                   written, info_written, info0, cache0, prev, provider_latency,
                   glossary_files>>
    /\ UNCHANGED throttle_vars

WritePluginTranslations ==
    /\ pc = "write_plugin_translations"
    /\ LET out == write_plugin_translations(
                      self, [dir |-> translations_dir, written |-> written], 1)
       IN  translations_dir' = out.dir /\ written' = out.written
    /\ pc' = After("write_plugin_translations")
    /\ UNCHANGED <<environ, info_file, core_root, plugin_tree, self, pos, run, calls,
                   info_written, info0, cache0, prev>>
    /\ UNCHANGED provider_vars
    /\ UNCHANGED throttle_vars

WriteInfoJson ==
    /\ pc = "write_info_json"
    /\ LET out == write_info_json(self, info_file)
       IN  self' = out.self /\ info_file' = out.file /\ info_written' = out.wrote
    /\ pc' = After("write_info_json")
    /\ UNCHANGED <<environ, core_root, translations_dir, plugin_tree, pos, run, calls,
                   written, info0, cache0, prev>>
    /\ UNCHANGED provider_vars
    /\ UNCHANGED throttle_vars

Next ==
    \/ Construct
    \/ GetPluginTranslations
    \/ GetCoreTranslations
    \/ FindPromptsInAllFiles
    \/ DoTranslatePrompt
    \/ DoTranslateReturn
    \/ TranslateInfoJson
    \/ WritePluginTranslations
    \/ WriteInfoJson

Spec == Init /\ [][Next]_vars

(***************************************************************************)
(* Construction alone, over a wide choice of input texts                   *)
(***************************************************************************)
BoolTexts ==
    {{<<"true">>}, {<<"TRUE">>}, {<<"False">>}, {<<" ", "true", " ">>}, {<<"yes">>},
     {<<"true", " ", "false">>}, {<<" ">>}, {}}

InputConfigurations ==
    {Configuration(EnvOf({<<src>>}, {<<EN_US>>}, {<<"key">>}, inc, core, gen, dbg),
                   InfoPlain, CorePresent, DirPartial, TreeShared) :
        src \in {FR_FR, EN_US}, inc \in BoolTexts, core \in BoolTexts, gen \in BoolTexts,
        dbg \in BoolTexts}

InitInputs == InitOf(InputConfigurations)

NextInputs == Construct

SpecInputs == InitInputs /\ [][NextInputs]_vars

(***************************************************************************)
(* Throttle (throttle.py): a wrapped function called again and again, with *)
(* any time between two calls                                              *)
(***************************************************************************)
\* as if the time of the call were kept before the sleep
wrapper_stamping_before_sleep(th, t, oversleep, result) ==
    LET time_since_last_call == t - th.time_of_last_call
        wait_seconds == th.throttle_period - time_since_last_call
        woken == t + wait_seconds + oversleep
    IN  IF time_since_last_call > th.throttle_period
        THEN [throttle |-> [th EXCEPT !.time_of_last_call = t],
              runs |-> <<[started |-> t, result |-> result]>>,
              returned |-> result]
        ELSE [throttle |-> [th EXCEPT !.time_of_last_call = t],
              runs |-> <<[started |-> woken, result |-> result]>>,
              returned |-> result]

\* wrapper(*args, **kwargs) entered at time t, the sleep lasting oversleep
\* longer than asked and fn returning result: the Throttle afterwards, the
\* runs of fn with the time each one started, and what the wrapper returns
wrapper(th, t, oversleep, result) ==
    LET time_since_last_call == t - th.time_of_last_call
        wait_seconds == th.throttle_period - time_since_last_call
        woken == t + wait_seconds + oversleep
    IN  IF time_since_last_call > th.throttle_period
        THEN [throttle |-> [th EXCEPT !.time_of_last_call = t],
              runs |-> <<[started |-> t, result |-> result]>>,
              returned |-> result]
        ELSE [throttle |-> [th EXCEPT !.time_of_last_call = woken],
              runs |-> <<[started |-> woken, result |-> result]>>,
              returned |-> result]

coordinator_vars ==
    <<environ, info_file, core_root, translations_dir, plugin_tree, self, pc, pos, run,
      calls, written, info_written, info0, cache0, prev, answers, provider_latency,
      glossary_files, glossaries, glossary_log>>

\* one call of the wrapped function; fn takes duration to return
ThrottleCall ==
    /\ Len(executions) < MaxCalls
    /\ \E oversleep \in 0..1, duration \in 0..1, result \in {"Function executed", "other"} :
          LET call == wrapper(throttle, now, oversleep, result)
          IN  /\ throttle' = call.throttle
              /\ executions' = Append(executions, [arrived |-> now, runs |-> call.runs,
                                                   returned |-> call.returned])
              /\ now' = call.runs[Len(call.runs)].started + duration
    /\ UNCHANGED coordinator_vars

\* the caller does something else for a while
PassTime ==
    /\ now < MaxClock
    /\ now' = now + 1
    /\ UNCHANGED coordinator_vars
    /\ UNCHANGED throttle_vars

InitThrottle ==
    /\ InitCoordinator({Configuration(EmptyMap, InfoMissing, CoreMissing, DirEmpty, TreeEmpty)})
    /\ now \in 0..MaxPeriod
    /\ throttle \in {Throttle(seconds) : seconds \in 0..MaxPeriod}
    /\ executions = <<>>

NextThrottle ==
    \/ ThrottleCall
    \/ PassTime

SpecThrottle == InitThrottle /\ [][NextThrottle]_vars

(***************************************************************************)
(* Vocabulary of the properties                                            *)
(***************************************************************************)
\* __init__ returned (the inputs were valid and info.json was there) and
\* start() has not raised
Constructed == run >= 1 /\ pc # "raised" /\ pc # "new"

\* __init__ returned; start() may have raised since
Initialized == self.source_language # ""

AfterDoTranslate ==
    pc \in {"translate_info_json", "write_plugin_translations", "write_info_json", "done"}

AfterWrite == pc \in {"write_info_json", "done"}

NoKey == get_input(environ, INPUT_DEEPL_API_KEY) = None

AllPrompts(files) ==
    {files[i].prompts[j] : <<i, j>> \in Range(PromptPositions(files, 1))}

\* the prompts do_translate has gone through so far
ResolvedPrompts ==
    IF pc = "do_translate"
    THEN {self.files[at[1]].prompts[at[2]] :
             at \in Range(SubSeq(PromptPositions(self.files, 1), 1, pos))}
    ELSE IF AfterDoTranslate THEN AllPrompts(self.files)
    ELSE {}

InCache(cache, text, language) ==
    text \in DOMAIN cache /\ language \in DOMAIN cache[text]

\* the (language, path, text) cells of the written documents
WrittenCells(docs) ==
    UNION {UNION {{<<language, path, text>> : text \in DOMAIN docs[language][path]} :
                     path \in DOMAIN docs[language]} :
              language \in DOMAIN docs}

\* calls holds the calls of do_translate and no other
OnlyDoTranslateCalls == pc \in {"do_translate", "translate_info_json"}

Rank(language) == IndexOf(ALL_LANGUAGES, language)

BooleanInputs ==
    {INPUT_INCLUDE_EMPTY_TRANSLATION, INPUT_USE_CORE_TRANSLATIONS,
     INPUT_GENERATE_SOURCE_LANGUAGE_TRANSLATIONS, INPUT_DEBUG}

(***************************************************************************)
(* Properties                                                              *)
(***************************************************************************)
\* C1: within one run of do_translate no (text, target language) pair is sent
\* to the provider twice, whatever the provider answered, and every resolved
\* prompt holds for a pair that was sent the result kept in the cache.
C1_AtMostOneCallPerPair ==
    OnlyDoTranslateCalls =>
        /\ \A m, n \in 1..Len(calls) : m # n => calls[m] # calls[n]
        /\ \A k \in 1..Len(calls) : calls[k].lang # self.source_language
        /\ \A prompt \in ResolvedPrompts, k \in 1..Len(calls) :
              calls[k].text = prompt.text =>
                  /\ InCache(self.existing_translations, prompt.text, calls[k].lang)
                  /\ get_translation(prompt, calls[k].lang)
                         = self.existing_translations[prompt.text][calls[k].lang]

\* two files share a text, both prompts are resolved, and the one call made
\* for the text came back empty
C1_Witness ==
    /\ pc = "do_translate"
    /\ \E p, q \in 1..pos :
          LET at == PromptPositions(self.files, 1)
          IN  /\ at[p][1] # at[q][1]
              /\ self.files[at[p][1]].prompts[at[p][2]].text
                     = self.files[at[q][1]].prompts[at[q][2]].text
              /\ \E k \in 1..Len(calls) :
                    /\ calls[k].text = self.files[at[p][1]].prompts[at[p][2]].text
                    /\ self.existing_translations[calls[k].text][calls[k].lang] = ""

\* C2: a (text, language) pair the cache held when do_translate started is
\* never sent to the provider, also when a provider is configured.
C2_NoCallForCachedPair ==
    OnlyDoTranslateCalls =>
        \A k \in 1..Len(calls) : ~InCache(cache0, calls[k].text, calls[k].lang)

\* a provider is configured, a resolved prompt had a cached target-language
\* translation, and calls were made for other pairs
C2_Witness ==
    /\ pc = "do_translate"
    /\ self.deepl_translator
    /\ calls # <<>>
    /\ \E prompt \in ResolvedPrompts, k \in 1..Len(self.target_languages) :
          /\ self.target_languages[k] # self.source_language
          /\ InCache(cache0, prompt.text, self.target_languages[k])

\* C3: after do_translate (and for every prompt already resolved) the
\* source-language entry of a prompt is its own text, whatever the cache held
\* and whatever the provider answered.
C3_SourceEntryIsText ==
    \A prompt \in ResolvedPrompts :
        /\ has_translation(prompt, self.source_language)
        /\ prompt.translations[self.source_language] = prompt.text

\* the cache held another value for the source language of a text, and the
\* provider was called
C3_Witness ==
    /\ AfterDoTranslate
    /\ calls # <<>>
    /\ \E prompt \in ResolvedPrompts :
          /\ InCache(cache0, prompt.text, self.source_language)
          /\ cache0[prompt.text][self.source_language] # prompt.text

C5_InfoLanguagesSorted ==
    pc = "done" =>
        LET language == info_file.content.language
        IN  /\ info_written
            /\ Range(language) = {self.source_language} \cup Range(self.target_languages)
            /\ \A m, n \in 1..Len(language) : m < n => Rank(language[m]) < Rank(language[n])

\* the field held another list before, the target list is not sorted and
\* names the source language, and no provider is configured
C5_Witness ==
    /\ pc = "done"
    /\ NoKey
    /\ info0.content.language # info_file.content.language
    /\ info0.content.language # <<>>
    /\ self.source_language \in Range(self.target_languages)
    /\ \E m, n \in 1..Len(self.target_languages) :
          m < n /\ Rank(self.target_languages[m]) > Rank(self.target_languages[n])

\* the second instance has left do_translate, and the first one wrote files
SecondRunResolved ==
    run >= 2 /\ prev.valid /\ prev.written # EmptyMap /\ pc = "translate_info_json"

\* the prompt of the previous instance at the same place
PrevPrompt(at) == prev.files[at[1]].prompts[at[2]]

RunLanguages == {self.source_language} \cup Range(self.target_languages)

\* C6 as stated: a second run over the files the first one wrote calls
\* nothing and resolves every prompt as the first run did.
C6_AsStated ==
    SecondRunResolved =>
        /\ calls = <<>>
        /\ \A at \in Range(PromptPositions(self.files, 1)), language \in RunLanguages :
              get_translation(self.files[at[1]].prompts[at[2]], language)
                  = get_translation(PrevPrompt(at), language)

\* C6, amended: the second run sends no (text, language) pair that the first
\* run wrote to a file, and gives every prompt the translation of the first
\* run in every language where that one was not empty; when empty
\* translations are included it calls nothing and all translations agree.
C6_RoundTrip ==
    SecondRunResolved =>
        /\ \A k \in 1..Len(calls) :
              \A cell \in WrittenCells(prev.written) :
                  ~(cell[1] = calls[k].lang /\ cell[3] = calls[k].text)
        /\ \A at \in Range(PromptPositions(self.files, 1)), language \in RunLanguages :
              (get_translation(PrevPrompt(at), language) # ""
               \/ self.include_empty_translation) =>
                  get_translation(self.files[at[1]].prompts[at[2]], language)
                      = get_translation(PrevPrompt(at), language)
        /\ self.include_empty_translation => calls = <<>>

\* the first run called the provider and wrote what it got; the second run,
\* with the provider configured, resolved every prompt without a call
C6_Witness ==
    /\ SecondRunResolved
    /\ self.deepl_translator
    /\ prev.calls # <<>>
    /\ calls = <<>>
    /\ \E cell \in WrittenCells(prev.written) :
          prev.written[cell[1]][cell[2]][cell[3]] = "translated"

\* C7: without include-empty no written document holds a text whose resolved
\* translation is empty or absent; with it, every prompt of every file is in
\* every written document.
C7_EmptyTranslations ==
    AfterWrite =>
        /\ ~self.include_empty_translation =>
              \A cell \in WrittenCells(written) :
                  /\ written[cell[1]][cell[2]][cell[3]] # ""
                  /\ \A n \in 1..Len(self.files) :
                        \A prompt \in Range(self.files[n].prompts) :
                            (self.files[n].path = cell[2] /\ prompt.text = cell[3]) =>
                                /\ has_translation(prompt, cell[1])
                                /\ prompt.translations[cell[1]] # ""
        /\ self.include_empty_translation =>
              \A language \in DOMAIN written, n \in 1..Len(self.files) :
                  \A prompt \in Range(self.files[n].prompts) :
                      /\ self.files[n].path \in DOMAIN written[language]
                      /\ prompt.text \in DOMAIN written[language][self.files[n].path]
                      /\ written[language][self.files[n].path][prompt.text]
                             = get_translation(prompt, language)

\* a document was written without include-empty while a prompt of a written
\* group had no translation in that language
C7_Witness ==
    /\ AfterWrite
    /\ ~self.include_empty_translation
    /\ \E language \in DOMAIN written, n \in 1..Len(self.files) :
          /\ self.files[n].path \in DOMAIN written[language]
          /\ \E prompt \in Range(self.files[n].prompts) :
                get_translation(prompt, language) = ""

\* C8: a written document has at least one group, and each of its groups has
\* at least one text.
C8_NoEmptyGroup ==
    \A language \in DOMAIN written :
        /\ DOMAIN written[language] # {}
        /\ \A path \in DOMAIN written[language] : DOMAIN written[language][path] # {}
        /\ language \in DOMAIN translations_dir
        /\ translations_dir[language] = json_dumps(written[language])

\* a file without prompt was discovered, a document was written, and no file
\* was written for another language that was to be emitted
C8_Witness ==
    /\ AfterWrite
    /\ written # EmptyMap
    /\ \E n \in 1..Len(self.files) : self.files[n].prompts = <<>>
    /\ \E k \in 1..Len(self.target_languages) :
          /\ self.target_languages[k] # self.source_language
          /\ self.target_languages[k] \notin DOMAIN written

\* C9: when the run has raised, no translation file and no info.json was
\* written and no remote call was made.
C9_FatalErrorWritesNothing ==
    pc = "raised" =>
        /\ written = EmptyMap
        /\ ~info_written
        /\ info_file = info0
        /\ calls = <<>>
        /\ self.api_call_counter = 0

\* start() raised for the missing core directory, with a provider configured
C9_Witness ==
    /\ pc = "raised"
    /\ Initialized
    /\ ~NoKey
    /\ plugin_tree # <<>>
    /\ ~core_root.exists

\* C10 as stated: construction succeeds only if each of the four boolean
\* inputs is one of true, True, TRUE, false, False, FALSE.
C10_AsStated ==
    Constructed =>
        \A name \in BooleanInputs :
            name \in DOMAIN environ /\ environ[name] \in trueValue \cup falseValue

\* C10, amended: construction succeeds only if include-empty, generate-source
\* and debug, and use-core when the source language is fr_FR, are set to a
\* text that, without its surrounding blanks, is one of the six spellings.
C10_InvalidBooleanRejected ==
    Constructed =>
        \A name \in BooleanInputs :
            (name = INPUT_USE_CORE_TRANSLATIONS => self.source_language = FR_FR) =>
                name \in DOMAIN environ /\ strip(environ[name]) \in trueValue \cup falseValue

\* construction raised although only the use-core input is invalid
C10_Witness ==
    /\ pc = "raised"
    /\ get_input(environ, INPUT_SOURCE_LANGUAGE) = <<FR_FR>>
    /\ \A name \in BooleanInputs \ {INPUT_USE_CORE_TRANSLATIONS} :
          get_boolean_input(environ, name).ok
    /\ INPUT_USE_CORE_TRANSLATIONS \in DOMAIN environ
    /\ environ[INPUT_USE_CORE_TRANSLATIONS] = <<"yes">>

\* the (text, translation) cells a translation file holds when it parses
FileCells(file) ==
    IF file.malformed THEN {}
    ELSE UNION {{<<text, file.text[k][text]>> : text \in DOMAIN file.text[k]} :
                   k \in DOMAIN file.text}

\* the (text, language, translation) cells of the files of the languages
DirCells(dir, languages) ==
    UNION {{<<cell[1], language, cell[2]>> : cell \in FileCells(dir[language])} :
              language \in Range(languages) \cap DOMAIN dir}

CacheCells(cache) ==
    UNION {{<<text, language, cache[text][language]>> : language \in DOMAIN cache[text]} :
              text \in DOMAIN cache}

\* C11: loading the cache never raises for a malformed translation file
\* (start() raises only for the missing core directory); after the plugin
\* files are loaded the cache holds exactly the cells of the well-formed files
\* of the target languages, wherever the malformed file comes in the target
\* list; after the core files are loaded it holds every cell of the
\* well-formed core files and nothing that is in no well-formed file.
C11_MalformedFileSkipped ==
    /\ (pc = "raised" /\ Initialized) => (self.use_core_translations /\ ~core_root.exists)
    /\ pc = "get_core_translations" =>
          CacheCells(self.existing_translations)
              = DirCells(translations_dir, self.target_languages)
    /\ (pc = "find_prompts_in_all_files" /\ self.use_core_translations) =>
          /\ DirCells(core_root.files, self.target_languages)
                 \subseteq CacheCells(self.existing_translations)
          /\ CacheCells(self.existing_translations)
                 \subseteq DirCells(core_root.files, self.target_languages)
                           \cup DirCells(translations_dir, self.target_languages)

\* the plugin files are loaded; the file of the first target language is
\* malformed and the cells of the file of a later one are in the cache
C11_Witness ==
    /\ pc = "get_core_translations"
    /\ Len(self.target_languages) >= 2
    /\ self.target_languages[1] \in DOMAIN translations_dir
    /\ translations_dir[self.target_languages[1]].malformed
    /\ \E m \in 2..Len(self.target_languages) :
          \E cell \in FileCells(translations_dir[self.target_languages[m]]) :
              InCache(self.existing_translations, cell[1], self.target_languages[m])

\* when the k-th call of the wrapped function started to run
Started(k) == executions[k].runs[1].started

\* C12: every call of the wrapper runs the wrapped function once and returns
\* what it returned; two consecutive runs start at least the period apart, so
\* that N calls take at least (N - 1) periods; a call that arrives less than
\* the period after the previous run started waits at least for the rest of
\* the period.
C12_ThrottleSpacing ==
    LET N == Len(executions)
        T == throttle.throttle_period
    IN  /\ \A k \in 1..N :
              /\ Len(executions[k].runs) = 1
              /\ executions[k].returned = executions[k].runs[1].result
        /\ \A k \in 1..(N - 1) : Started(k + 1) - Started(k) >= T
        /\ N >= 1 =>
              /\ Started(N) - Started(1) >= T * (N - 1)
              /\ now - executions[1].arrived >= T * (N - 1)
        /\ \A k \in 1..(N - 1) :
              executions[k + 1].arrived - Started(k) < T =>
                  Started(k + 1) - executions[k + 1].arrived
                      >= T - (executions[k + 1].arrived - Started(k))

\* three calls: one arrived within the period and had to wait, another
\* arrived later than the period and ran at once
C12_Witness ==
    /\ Len(executions) >= 3
    /\ throttle.throttle_period >= 2
    /\ \E k \in 2..Len(executions) :
          /\ executions[k].arrived - Started(k - 1) < throttle.throttle_period
          /\ Started(k) > executions[k].arrived
    /\ \E k \in 2..Len(executions) :
          /\ executions[k].arrived - Started(k - 1) > throttle.throttle_period
          /\ Started(k) = executions[k].arrived

\* the provider did not answer call k with a text result
FailedCall(k) == answers[k].raises \/ ~answers[k].is_text_result

\* translate_text returned, and returned something that is no TextResult
UnexpectedResult(k) == ~answers[k].raises /\ ~answers[k].is_text_result

\* C13 as stated: whatever way a remote call fails, start() is not aborted
\* and the empty string is kept as the translation asked for.
C13_AsStated ==
    \A k \in 1..Len(answers) :
        FailedCall(k) =>
            /\ pc # "aborted"
            /\ answers[k].phase = "do_translate" =>
                  /\ InCache(self.existing_translations, calls[k].text, calls[k].lang)
                  /\ self.existing_translations[calls[k].text][calls[k].lang] = ""

\* C14: the call counter is the number of calls of translate_text; a call
\* that returned something else than a text result does not end start(), and
\* the empty string is kept for it: in the cache and on the prompts of that
\* text when a prompt asked, in the description when translate_info_json
\* asked.
C14_UnexpectedResult ==
    /\ self.api_call_counter = Len(calls)
    /\ Len(answers) = Len(calls)
    /\ pc = "aborted" => (answers # <<>> /\ answers[Len(answers)].raises)
    /\ \A k \in 1..Len(answers) :
          UnexpectedResult(k) =>
              /\ answers[k].phase = "do_translate" =>
                    /\ InCache(self.existing_translations, calls[k].text, calls[k].lang)
                    /\ self.existing_translations[calls[k].text][calls[k].lang] = ""
                    /\ \E prompt \in AllPrompts(self.files) :
                          /\ prompt.text = calls[k].text
                          /\ has_translation(prompt, calls[k].lang)
                    /\ \A prompt \in AllPrompts(self.files) :
                          (prompt.text = calls[k].text /\ has_translation(prompt, calls[k].lang))
                              => prompt.translations[calls[k].lang] = ""
              /\ (answers[k].phase = "translate_info_json"
                  /\ self.info_json_content.description.kind = "dict") =>
                    /\ calls[k].lang \in DOMAIN self.info_json_content.description.map
                    /\ self.info_json_content.description.map[calls[k].lang] = ""

\* the run is done; a prompt's call came back with something that is no text
\* result, and other calls were made after it
C14_Witness ==
    /\ pc = "done"
    /\ \E k \in 1..Len(answers) :
          /\ UnexpectedResult(k)
          /\ answers[k].phase = "do_translate"
          /\ k < Len(answers)
          /\ self.api_call_counter > k

\* C15 as stated: once the plugin files and then the core files are loaded,
\* every cell of the plugin files is in the cache with the plugin's value.
C15_AsStated ==
    (pc = "find_prompts_in_all_files" /\ self.use_core_translations) =>
        DirCells(translations_dir, self.target_languages)
            \subseteq CacheCells(self.existing_translations)

\* the description as translate_info_json looks at it: a mapping, a plain
\* text being the entry of the source language
Descriptions(description) ==
    IF description.kind = "dict" THEN description.map
    ELSE IF description.kind = "str" THEN self.source_language :> description.text
    ELSE EmptyMap

\* the description info.json held when the instance was constructed
Descriptions0 == Descriptions(info0.content.description)

InfoCalls == {k \in 1..Len(answers) : answers[k].phase = "translate_info_json"}

\* C16: an entry of the description that is there and not empty keeps its
\* value, and no call is made for its language; translate_info_json calls
\* the provider only with a credential, only when the description has an
\* entry for the source language (a plain text being that entry), only with
\* that entry as the text, and only for target languages whose entry is
\* missing or empty.
C16_DescriptionFrame ==
    Initialized =>
        /\ \A language \in DOMAIN Descriptions0 :
              Descriptions0[language] # "" =>
                  /\ language \in DOMAIN Descriptions(self.info_json_content.description)
                  /\ Descriptions(self.info_json_content.description)[language]
                         = Descriptions0[language]
                  /\ \A k \in InfoCalls : calls[k].lang # language
        /\ \A k \in InfoCalls :
              /\ ~NoKey
              /\ self.deepl_translator
              /\ self.source_language \in DOMAIN Descriptions0
              /\ calls[k].text = Descriptions0[self.source_language]
              /\ calls[k].lang \in Range(self.target_languages)
              /\ calls[k].lang \in DOMAIN Descriptions0 => Descriptions0[calls[k].lang] = ""

\* the description was a mapping; translate_info_json has called for a
\* language whose entry was empty and has passed over a target language
\* whose entry was written by hand
C16_Witness ==
    /\ pc = "write_plugin_translations"
    /\ info0.content.description.kind = "dict"
    /\ \E k \in InfoCalls :
          calls[k].lang \in DOMAIN Descriptions0 /\ Descriptions0[calls[k].lang] = ""
    /\ \E n \in 1..Len(self.target_languages) :
          /\ self.target_languages[n] # self.source_language
          /\ self.target_languages[n] \in DOMAIN Descriptions0
          /\ Descriptions0[self.target_languages[n]] # ""

\* the glossary requests of the current instance
RunLog == {n \in 1..Len(glossary_log) : glossary_log[n].run = run}

Syncs == {n \in RunLog : glossary_log[n].op = "sync"}

\* the deepl_translator property has been read by this instance
HandleAccessed ==
    \/ pc = "do_translate" /\ pos >= 1
    \/ pc \in {"write_plugin_translations", "write_info_json", "done", "aborted"}

\* C17: an instance brings the glossaries up to date at most once: not when
\* it is constructed and not before the provider handle is first read; with
\* a credential it does so when the handle is first read, and the handle is
\* there exactly when it has done so; without a credential never; every
\* glossary request is made before the first call of translate_text.
C17_GlossarySyncOnce ==
    Initialized =>
        /\ Cardinality(Syncs) <= 1
        /\ (pc \in {"get_plugin_translations", "get_core_translations",
                    "find_prompts_in_all_files"} \/ (pc = "do_translate" /\ pos = 0)) =>
              (RunLog = {} /\ ~self.deepl_translator)
        /\ self.deepl_translator <=> Cardinality(Syncs) = 1
        /\ (HandleAccessed /\ ~NoKey) => self.deepl_translator
        /\ NoKey => RunLog = {}
        /\ \A n \in RunLog : glossary_log[n].calls = 0

\* the run is done: the handle was read for a prompt and again for the
\* description, glossaries were created on the first access, and calls were
\* made afterwards
C17_Witness ==
    /\ pc = "done"
    /\ Cardinality(Syncs) = 1
    /\ AllPrompts(self.files) # {}
    /\ \E n \in RunLog : glossary_log[n].op = "create"
    /\ Len(calls) >= 2

\* the target languages the glossary file of the source language has terms for
GlossaryTargets ==
    IF self.source_language \in DOMAIN glossary_files
    THEN {language \in Range(self.target_languages) :
             /\ language # self.source_language
             /\ language \in DOMAIN glossary_files[self.source_language].text}
    ELSE {}

\* the glossaries the provider holds for source -> language
HeldFor(language) ==
    {glossaries[n] : n \in {m \in 1..Len(glossaries) :
        /\ glossaries[m].source_lang = LANGUAGES_TO_DEEPL_GLOSSARY[self.source_language]
        /\ glossaries[m].target_lang = LANGUAGES_TO_DEEPL_GLOSSARY[language]}}

\* the glossaries this instance created for the language
CreatedFor(language) ==
    {glossary_log[n].glossary_id :
        n \in {m \in RunLog : glossary_log[m].op = "create"
                                /\ glossary_log[m].target = language}}

\* C18: once the instance has brought the glossaries up to date, for every
\* target language other than the source language with terms in the glossary
\* file: the handle kept is a glossary the provider holds for (source,
\* target) under the name md5 of the file; the provider holds no glossary of
\* another name for that pair; if one of that name was there before, it is
\* the handle and nothing was created, otherwise just one was created and it
\* is the handle. A target language without terms has no handle and no
\* glossary was deleted or created for it.
C18_GlossaryReconciled ==
    (Initialized /\ self.deepl_translator) =>
        /\ \A language \in GlossaryTargets :
              LET md5_hash == md5(glossary_files[self.source_language].text)
                  before == {g \in HeldFor(language) :
                                g.name = md5_hash /\ g.glossary_id \notin CreatedFor(language)}
              IN  /\ self.glossary[language] \in HeldFor(language)
                  /\ self.glossary[language].name = md5_hash
                  /\ \A g \in HeldFor(language) : g.name = md5_hash
                  /\ before # {} =>
                        (CreatedFor(language) = {} /\ self.glossary[language] \in before)
                  /\ before = {} =>
                        /\ Cardinality(CreatedFor(language)) = 1
                        /\ self.glossary[language].glossary_id \in CreatedFor(language)
        /\ \A language \in Range(self.target_languages) \ GlossaryTargets :
              /\ self.glossary[language].is_none
              /\ \A n \in RunLog : glossary_log[n].target # language

\* one target language kept the glossary that was up to date while an
\* outdated one was deleted, a glossary was created for another one, and a
\* third one has no terms
C18_Witness ==
    /\ Initialized
    /\ self.deepl_translator
    /\ \E language \in GlossaryTargets :
          /\ CreatedFor(language) = {}
          /\ \E n \in RunLog :
                glossary_log[n].op = "delete" /\ glossary_log[n].target = language
    /\ \E language \in GlossaryTargets : CreatedFor(language) # {}
    /\ Range(self.target_languages) \ GlossaryTargets # {}

\* the phases of a run as the specification numbers them; 8 is the end
Phase(step) ==
    CASE step = "get_plugin_translations" -> 1
      [] step = "get_core_translations" -> 2
      [] step = "find_prompts_in_all_files" -> 3
      [] step = "do_translate" -> 4
      [] step = "translate_info_json" -> 5
      [] step = "write_plugin_translations" -> 6
      [] step = "write_info_json" -> 7
      [] step = "done" -> 8
      [] OTHER -> 0

Running == Phase(pc) \in 1..7

\* C19: a run goes through the phases in the order load plugin files, load
\* core files (which loads nothing when the core is not asked for), discover
\* prompts, resolve prompts, translate the description, write the files,
\* write info.json, unless it ends with an exception; the cache is loaded in
\* phases 1 and 2 only and the files are discovered in phase 3 only; the
\* provider is called in phases 4 and 5 only; translation files are written
\* in phase 6 only and info.json in phase 7 only, as the last thing.
C19_PhaseOrder ==
    [][/\ ~Running => pc' \in {pc, "get_plugin_translations", "raised"}
       /\ Running =>
             /\ pc' \in {pc, "raised", "aborted"} \/ Phase(pc') = Phase(pc) + 1
             /\ pc' = pc => pc = "do_translate"
             /\ Len(self'.files) # Len(self.files) => pc = "find_prompts_in_all_files"
             /\ (pc = "get_core_translations" /\ ~self.use_core_translations) => self' = self
             /\ (self'.existing_translations # self.existing_translations
                  /\ Phase(pc) # 4) => Phase(pc) \in {1, 2}
             /\ calls' # calls => Phase(pc) \in {4, 5}
             /\ (pc = "do_translate" /\ pc' = "translate_info_json") =>
                   pos = Len(PromptPositions(self.files, 1))
             /\ (translations_dir' # translations_dir \/ written' # written) =>
                   pc = "write_plugin_translations"
             /\ (info_file' # info_file \/ info_written' # info_written) =>
                   (pc = "write_info_json" /\ pc' = "done")]_vars

\* a run with the core asked for is done: it called the provider, wrote
\* translation files and wrote info.json
C19_Witness ==
    /\ pc = "done"
    /\ self.use_core_translations
    /\ calls # <<>>
    /\ written # EmptyMap
    /\ info_written

\* the runs in which the provider may take a period or more to answer
ProviderTimed == \E d \in provider_latency : d >= throttle.throttle_period

\* C20 as stated: two consecutive calls of translate_text in one run are at
\* least the period of the rate limiter apart (looked at in the runs where
\* the provider's answers may take time).
C20_AsStated ==
    ProviderTimed =>
        \A k \in 1..(Len(answers) - 1) :
            answers[k + 1].at - answers[k].at >= throttle.throttle_period

(***************************************************************************)
(* C21: the target language of a remote call                               *)
(***************************************************************************)
\* the remote calls of the run whose target language is the source language
SourceTargeted == {k \in 1..Len(calls) : calls[k].lang = self.source_language}

\* C21 as stated: no remote call of a run has the source language as its
\* target language, neither while the prompts are resolved nor while the
\* description is translated, also when the source language is one of the
\* target languages and when its description is present but empty.
C21_AsStated == SourceTargeted = {}

(***************************************************************************)
(* C22: where the groups and texts of a written document come from         *)
(***************************************************************************)
\* the texts of the prompts discovered by this instance
DiscoveredTexts == {prompt.text : prompt \in AllPrompts(self.files)}

\* the cached texts that are no prompt of a discovered file
UndiscoveredTexts == DOMAIN self.existing_translations \ DiscoveredTexts

\* the texts of a document
TextsOf(document) == UNION {DOMAIN document[path] : path \in DOMAIN document}

\* C22: every group of a document written by the run, as read back from its
\* file, has the key plugins/<plugin id>/<path below the plugin's root> of
\* a file the run discovered, and every text of the group is a prompt of
\* that file; a cached text that is no prompt of a discovered file is in no
\* written document.
C22_OutputFromDiscovery ==
    \A language \in DOMAIN written :
        LET document == json_loads(translations_dir[language]).data
        IN  /\ document = written[language]
            /\ \A path \in DOMAIN document :
                  \E k \in 1..Len(plugin_tree) :
                      /\ Eligible(plugin_tree[k])
                      /\ path = <<"plugins", plugin_id(self)>> \o plugin_tree[k].dir
                                    \o <<plugin_tree[k].name>>
                      /\ \E n \in 1..Len(self.files) : self.files[n].path = path
                      /\ DOMAIN document[path] \subseteq Range(plugin_tree[k].texts)
            /\ TextsOf(document) \cap UndiscoveredTexts = {}

\* a document was written while the cache, loaded from the plugin's files
\* and from the core's, held a text that is no prompt of a discovered file,
\* and the tree held a file that is not discovered
C22_Witness ==
    /\ AfterWrite
    /\ written # EmptyMap
    /\ self.use_core_translations
    /\ UndiscoveredTexts # {}
    /\ \E k \in 1..Len(plugin_tree) :
          ~Eligible(plugin_tree[k]) /\ plugin_tree[k].texts # <<>>

====
